---------------------------- MODULE Spec2Model ----------------------------
(***************************************************************************)
(* A model of the AI code iterator: the response normalisation in          *)
(* app/actions.ts (safeJsonParse, iterateCode), the HTTP handler POST with *)
(* its own copy of safeJsonParse, and the CodeIterator component that      *)
(* calls iterateCode.                                                       *)
(*                                                                         *)
(* A text is a sequence of symbols.  Each symbol stands for one character, *)
(* except that "N", "T", "F" stand for the words null, true, false and     *)
(* "M", "E" for the words modifiedCode and explanation; "a" is any other   *)
(* letter.  A JavaScript string value carries its content as such a        *)
(* sequence, so the raw text and a parsed string can be compared.          *)
(***************************************************************************)
EXTENDS Naturals, Sequences, FiniteSets

VARIABLES
    pc,         \* "idle" | "awaiting" (inside await generateText) | "done"
    entry,      \* "none" | "iterateCode" | "POST": the entry point called
    code,       \* the code argument: <<>> is the empty string
    prompt,     \* the prompt argument
    apiKey,     \* process.env.OPENAI_API_KEY is set
    invoked,    \* generateText was called for the current request
    gen,        \* "none" | "returned" | "threw": how generateText ended
    text,       \* the raw text generateText returned
    outcome,    \* what the entry point gave back to its caller
    uiCode, uiPrompt, response, error, isLoading, finalCode,  \* useState
    handler,    \* "none" | "submit" | "retry": the handler awaiting iterateCode
    toast       \* the title of the last toast shown, "none" before any

srv  == <<pc, entry, code, prompt, apiKey, invoked, gen, text, outcome>>
ui   == <<uiCode, uiPrompt, response, error, isLoading, finalCode, handler,
          toast>>
vars == <<pc, entry, code, prompt, apiKey, invoked, gen, text, outcome,
          uiCode, uiPrompt, response, error, isLoading, finalCode, handler,
          toast>>

---------------------------------------------------------------------------
(* JavaScript values *)

Q == "\""

Undefined == [k |-> "undefined"]
Null      == [k |-> "null"]
Str(s)    == [k |-> "str", s |-> s]
Num(s)    == [k |-> "num", s |-> s]
Bool(b)   == [k |-> "bool", b |-> b]
Arr(xs)   == [k |-> "arr", items |-> xs]
\* An object keeps its modifiedCode and explanation properties and whether
\* it has any other property.
Obj(m, e, more) == [k |-> "obj", mc |-> m, ex |-> e, more |-> more]
EmptyObj  == Obj(Undefined, Undefined, FALSE)

\* ToBoolean: undefined, null, "", 0 and false are falsy, all else truthy.
Truthy(v) ==
    CASE v.k = "undefined" -> FALSE
      [] v.k = "null"      -> FALSE
      [] v.k = "str"       -> v.s # <<>>
      [] v.k = "num"       -> v.s # <<"0">>
      [] v.k = "bool"      -> v.b
      [] OTHER             -> TRUE

\* a || b
OrElse(a, b) == IF Truthy(a) THEN a ELSE b

\* v.modifiedCode and v.explanation for a v that is neither null nor
\* undefined: a primitive or an array has neither property.
GetModifiedCode(v) == IF v.k = "obj" THEN v.mc ELSE Undefined
GetExplanation(v)  == IF v.k = "obj" THEN v.ex ELSE Undefined

---------------------------------------------------------------------------
(* JSON.parse *)

Fail     == [ok |-> FALSE, next |-> 0, val |-> Undefined]
Ok(v, n) == [ok |-> TRUE, next |-> n, val |-> v]

IsDigit(c) == c \in {"0", "1"}

RECURSIVE SkipWs(_, _)
SkipWs(t, i) == IF i <= Len(t) /\ t[i] = " " THEN SkipWs(t, i + 1) ELSE i

\* The index of the first quote at or after i, 0 when there is none.
RECURSIVE StringEnd(_, _)
StringEnd(t, i) ==
    IF i > Len(t) THEN 0
    ELSE IF t[i] = Q THEN i
    ELSE StringEnd(t, i + 1)

\* The index after the digits that start at i.
RECURSIVE DigitsEnd(_, _)
DigitsEnd(t, i) ==
    IF i <= Len(t) /\ IsDigit(t[i]) THEN DigitsEnd(t, i + 1) ELSE i

\* A string literal at i (t[i] is the opening quote).
ParseString(t, i) ==
    LET e == StringEnd(t, i + 1)
    IN  IF e = 0 THEN Fail ELSE Ok(Str(SubSeq(t, i + 1, e - 1)), e + 1)

\* A number at i: 0, or 1 followed by digits (no leading zero).
ParseNumber(t, i) ==
    IF t[i] = "0" THEN Ok(Num(<<"0">>), i + 1)
    ELSE LET e == DigitsEnd(t, i + 1) IN Ok(Num(SubSeq(t, i, e - 1)), e)

\* o[key] = v while an object literal is read: a later member wins.
PutMember(o, key, v) ==
    CASE key = <<"M">> -> [o EXCEPT !.mc = v]
      [] key = <<"E">> -> [o EXCEPT !.ex = v]
      [] OTHER         -> [o EXCEPT !.more = TRUE]

RECURSIVE ParseValue(_, _), ParseElements(_, _, _), ParseMembers(_, _, _)

\* The JSON value that starts at i (i is past any whitespace).
ParseValue(t, i) ==
    IF i > Len(t) THEN Fail
    ELSE CASE t[i] = Q   -> ParseString(t, i)
           [] IsDigit(t[i]) -> ParseNumber(t, i)
           [] t[i] = "N" -> Ok(Null, i + 1)
           [] t[i] = "T" -> Ok(Bool(TRUE), i + 1)
           [] t[i] = "F" -> Ok(Bool(FALSE), i + 1)
           [] t[i] = "[" ->
                LET j == SkipWs(t, i + 1)
                IN  IF j <= Len(t) /\ t[j] = "]" THEN Ok(Arr(<<>>), j + 1)
                    ELSE ParseElements(t, j, <<>>)
           [] t[i] = "{" ->
                LET j == SkipWs(t, i + 1)
                IN  IF j <= Len(t) /\ t[j] = "}" THEN Ok(EmptyObj, j + 1)
                    ELSE ParseMembers(t, j, EmptyObj)
           [] OTHER -> Fail

\* The elements of an array from i on, acc holding those read so far.
ParseElements(t, i, acc) ==
    LET r == ParseValue(t, i)
        j == SkipWs(t, r.next)
    IN  IF ~r.ok \/ j > Len(t) THEN Fail
        ELSE IF t[j] = "," THEN
            ParseElements(t, SkipWs(t, j + 1), Append(acc, r.val))
        ELSE IF t[j] = "]" THEN Ok(Arr(Append(acc, r.val)), j + 1)
        ELSE Fail

\* The members of an object from i on, acc holding those read so far.
ParseMembers(t, i, acc) ==
    IF i > Len(t) \/ t[i] # Q THEN Fail
    ELSE
    LET key == ParseString(t, i)
        c   == SkipWs(t, key.next)
    IN  IF ~key.ok \/ c > Len(t) \/ t[c] # ":" THEN Fail
        ELSE
        LET r == ParseValue(t, SkipWs(t, c + 1))
            j == SkipWs(t, r.next)
        IN  IF ~r.ok \/ j > Len(t) THEN Fail
            ELSE IF t[j] = "," THEN
                ParseMembers(t, SkipWs(t, j + 1), PutMember(acc, key.val.s, r.val))
            ELSE IF t[j] = "}" THEN Ok(PutMember(acc, key.val.s, r.val), j + 1)
            ELSE Fail

\* JSON.parse(t): ok is FALSE where it throws a SyntaxError.
JsonParse(t) ==
    LET r == ParseValue(t, SkipWs(t, 1))
    IN  IF r.ok /\ SkipWs(t, r.next) > Len(t)
        THEN [ok |-> TRUE, val |-> r.val]
        ELSE [ok |-> FALSE, val |-> Undefined]

---------------------------------------------------------------------------
(* safeJsonParse and the field check of iterateCode *)

\* The fixed strings, each the one symbol of a string's content.
ParseFailureMsg ==
    <<"The AI response couldn't be parsed as JSON. Showing raw response instead.">>
IncompleteMsg   == <<"The AI response was incomplete. Please try again.">>
PlaceholderCode == <<"// Error: No code was generated">>
ConfigMsg       == "OpenAI API key is not configured. Please contact the administrator."
GenericMsg      == "Failed to process your request. Please check your inputs and try again."
PostRequiredMsg == "Code and prompt are required"
PostGenericMsg  == "An unexpected error occurred"
\* What the engine says when a property of null is read.
TypeErrorMsg    == "Cannot read properties of null (reading 'modifiedCode')"
\* The message of an Error that generateText threw.
ProviderMsg     == "generateText failed"

Min(S) == CHOOSE x \in S : \A y \in S : x <= y
Max(S) == CHOOSE x \in S : \A y \in S : x >= y

\* RegexMatch with a lazy quantifier, /\{[\s\S]*?\}/: it stops at the first
\* "}" after the first "{".
RegexMatch_Lazy(t) ==
    LET opens == {i \in 1..Len(t) : t[i] = "{"}
    IN  IF opens = {} THEN [found |-> FALSE, span |-> <<>>]
        ELSE LET first  == Min(opens)
                 closes == {j \in (first + 1)..Len(t) : t[j] = "}"}
             IN  IF closes = {} THEN [found |-> FALSE, span |-> <<>>]
                 ELSE [found |-> TRUE, span |-> SubSeq(t, first, Min(closes))]

\* text.match(/\{[\s\S]*\}/): from the first "{" to the last "}" after it.
RegexMatch(t) ==
    LET opens == {i \in 1..Len(t) : t[i] = "{"}
    IN  IF opens = {} THEN [found |-> FALSE, span |-> <<>>]
        ELSE LET first  == Min(opens)
                 closes == {j \in (first + 1)..Len(t) : t[j] = "}"}
             IN  IF closes = {} THEN [found |-> FALSE, span |-> <<>>]
                 ELSE [found |-> TRUE, span |-> SubSeq(t, first, Max(closes))]

\* Synthetic with the other fixed message.
Synthetic_IncompleteMsg(t) == Obj(Str(t), Str(IncompleteMsg), FALSE)

\* The object safeJsonParse builds when both attempts fail.
Synthetic(t) == Obj(Str(t), Str(ParseFailureMsg), FALSE)

\* safeJsonParse(text)
safeJsonParse(t) ==
    LET direct == JsonParse(t)
    IN  IF direct.ok THEN direct.val
        ELSE LET m == RegexMatch(t)
             IN  IF m.found
                 THEN LET inner == JsonParse(m.span)
                      IN  IF inner.ok THEN inner.val ELSE Synthetic(t)
                 ELSE Synthetic(t)

NoOutcome      == [kind |-> "none", status |-> 0, val |-> Undefined, msg |-> ""]
Returned(v)    == [kind |-> "return", status |-> 0, val |-> v, msg |-> ""]
Thrown(m)      == [kind |-> "throw", status |-> 0, val |-> Undefined, msg |-> m]
Payload(v)     == [kind |-> "response", status |-> 200, val |-> v, msg |-> ""]
ErrorBody(m, st) == [kind |-> "response", status |-> st, val |-> Undefined, msg |-> m]

\* IterateCodeResult without the placeholder: parsed.modifiedCode || text.
IterateCodeResult_NoPlaceholder(t) ==
    LET parsed == safeJsonParse(t)
    IN  IF parsed.k = "null" THEN Thrown(TypeErrorMsg)
        ELSE LET m == GetModifiedCode(parsed)
                 e == GetExplanation(parsed)
             IN  IF ~Truthy(m) \/ ~Truthy(e)
                 THEN Returned(Obj(OrElse(m, Str(t)),
                                   OrElse(e, Str(IncompleteMsg)), FALSE))
                 ELSE Returned(Obj(m, e, FALSE))

\* IterateCodeResult whose last return gives explanation: parsed.modifiedCode.
IterateCodeResult_CopyPaste(t) ==
    LET parsed == safeJsonParse(t)
    IN  IF parsed.k = "null" THEN Thrown(TypeErrorMsg)
        ELSE LET m == GetModifiedCode(parsed)
                 e == GetExplanation(parsed)
             IN  IF ~Truthy(m) \/ ~Truthy(e)
                 THEN Returned(Obj(OrElse(OrElse(m, Str(t)), Str(PlaceholderCode)),
                                   OrElse(e, Str(IncompleteMsg)), FALSE))
                 ELSE Returned(Obj(m, m, FALSE))

\* IterateCodeResult replacing both fields as soon as one is falsy.
IterateCodeResult_BothSubstituted(t) ==
    LET parsed == safeJsonParse(t)
    IN  IF parsed.k = "null" THEN Thrown(TypeErrorMsg)
        ELSE LET m == GetModifiedCode(parsed)
                 e == GetExplanation(parsed)
             IN  IF ~Truthy(m) \/ ~Truthy(e)
                 THEN Returned(Obj(OrElse(Str(t), Str(PlaceholderCode)),
                                   Str(IncompleteMsg), FALSE))
                 ELSE Returned(Obj(m, e, FALSE))

\* iterateCode from safeJsonParse(text) to its return: reading a property
\* of null throws a TypeError, which the catch block rethrows.
IterateCodeResult(t) ==
    LET parsed == safeJsonParse(t)
    IN  IF parsed.k = "null" THEN Thrown(TypeErrorMsg)
        ELSE LET m == GetModifiedCode(parsed)
                 e == GetExplanation(parsed)
             IN  IF ~Truthy(m) \/ ~Truthy(e)
                 THEN Returned(Obj(OrElse(OrElse(m, Str(t)), Str(PlaceholderCode)),
                                   OrElse(e, Str(IncompleteMsg)), FALSE))
                 ELSE Returned(Obj(m, e, FALSE))

\* POST from safeJsonParse(text) on: the parsed value is the payload.
PostResult(t) == Payload(safeJsonParse(t))

---------------------------------------------------------------------------
(* The entry points *)

\* iterateCode(code, prompt) up to its await of generateText.
IterateCodeCall(c, p, key) ==
    /\ pc = "idle"
    /\ entry' = "iterateCode" /\ code' = c /\ prompt' = p /\ apiKey' = key
    /\ gen' = "none" /\ text' = <<>>
    /\ IF ~key
       THEN invoked' = FALSE /\ outcome' = Thrown(ConfigMsg) /\ pc' = "done"
       ELSE invoked' = TRUE /\ outcome' = NoOutcome /\ pc' = "awaiting"

\* generateText resolves with a text of TT and iterateCode runs to its end.
IterateCodeReturns(TT) ==
    /\ pc = "awaiting" /\ entry = "iterateCode"
    /\ \E t \in TT :
          /\ gen' = "returned" /\ text' = t
          /\ outcome' = IterateCodeResult(t)
    /\ pc' = "done"
    /\ UNCHANGED <<entry, code, prompt, apiKey, invoked>>

\* generateText rejects: an Error is rethrown, anything else is replaced.
IterateCodeCatches(isError) ==
    /\ pc = "awaiting" /\ entry = "iterateCode"
    /\ gen' = "threw"
    /\ outcome' = IF isError THEN Thrown(ProviderMsg) ELSE Thrown(GenericMsg)
    /\ pc' = "done"
    /\ UNCHANGED <<entry, code, prompt, apiKey, invoked, text>>

\* POST(req) when req.json() throws (or the destructuring of its result
\* does): the catch block answers 500 before code and prompt exist.
PostCallMalformed(key) ==
    /\ pc = "idle"
    /\ entry' = "POST" /\ code' = <<>> /\ prompt' = <<>> /\ apiKey' = key
    /\ gen' = "none" /\ text' = <<>>
    /\ invoked' = FALSE /\ outcome' = ErrorBody(PostGenericMsg, 500) /\ pc' = "done"

\* PostCall without the check of process.env.OPENAI_API_KEY.
PostCall_NoKeyCheck(c, p, key) ==
    /\ pc = "idle"
    /\ entry' = "POST" /\ code' = c /\ prompt' = p /\ apiKey' = key
    /\ gen' = "none" /\ text' = <<>>
    /\ IF c = <<>> \/ p = <<>>
       THEN invoked' = FALSE /\ outcome' = ErrorBody(PostRequiredMsg, 400) /\ pc' = "done"
       ELSE invoked' = TRUE /\ outcome' = NoOutcome /\ pc' = "awaiting"

\* POST(req) with a body that gives code c and prompt p, up to its await
\* of generateText.
PostCall(c, p, key) ==
    /\ pc = "idle"
    /\ entry' = "POST" /\ code' = c /\ prompt' = p /\ apiKey' = key
    /\ gen' = "none" /\ text' = <<>>
    /\ IF c = <<>> \/ p = <<>>
       THEN invoked' = FALSE /\ outcome' = ErrorBody(PostRequiredMsg, 400) /\ pc' = "done"
       ELSE IF ~key
       THEN invoked' = FALSE /\ outcome' = ErrorBody(ConfigMsg, 500) /\ pc' = "done"
       ELSE invoked' = TRUE /\ outcome' = NoOutcome /\ pc' = "awaiting"

\* generateText resolves with a text of TT and POST runs to its end.
PostReturns(TT) ==
    /\ pc = "awaiting" /\ entry = "POST"
    /\ \E t \in TT :
          /\ gen' = "returned" /\ text' = t
          /\ outcome' = PostResult(t)
    /\ pc' = "done"
    /\ UNCHANGED <<entry, code, prompt, apiKey, invoked>>

PostCatches ==
    /\ pc = "awaiting" /\ entry = "POST"
    /\ gen' = "threw"
    /\ outcome' = ErrorBody(PostGenericMsg, 500)
    /\ pc' = "done"
    /\ UNCHANGED <<entry, code, prompt, apiKey, invoked, text>>

---------------------------------------------------------------------------
(* Inputs *)

MaxPad == 1

\* The sequences over S of length at most n.
RECURSIVE SeqsUpTo(_, _)
SeqsUpTo(S, n) ==
    IF n = 0 THEN {<<>>}
    ELSE LET shorter == SeqsUpTo(S, n - 1)
         IN  shorter \cup {Append(q, x) : q \in shorter, x \in S}

PrefixSymbols == {"{", "}", "[", "a", " "}
SuffixSymbols == {"}", "{", "]", "a", " "}

\* The source text of a member value; <<"-">> marks a member left out.
Absent == <<"-">>
FieldSources ==
    {<<Q, "a", Q>>, <<Q, Q>>, <<"N">>, <<"{", "}">>, Absent}

Member(key, src) == <<Q, key, Q, ":">> \o src

ObjectText(m, e) ==
    <<"{">> \o
    (IF m = Absent THEN <<>> ELSE Member("M", m)) \o
    (IF m = Absent \/ e = Absent THEN <<>> ELSE <<",">>) \o
    (IF e = Absent THEN <<>> ELSE Member("E", e)) \o
    <<"}">>

Cores ==
    {ObjectText(m, e) : m \in FieldSources, e \in FieldSources}
    \cup {<<"{">> \o Member("E", <<Q, "a", Q>>) \o <<",">>
                  \o Member("M", <<Q, "M", Q>>) \o <<"}">>,
          <<"{">> \o Member("M", <<Q, "a", Q>>) \o <<",">>
                  \o Member("E", <<Q, "}", Q>>) \o <<",">>
                  \o Member("a", <<"1">>) \o <<"}">>,
          <<"{">> \o Member("M", <<"0">>) \o <<",">>
                  \o Member("M", <<"1", "0">>) \o <<",">>
                  \o Member("E", <<"[", "T", ",", "F", "]">>) \o <<"}">>}
    \cup {<<>>, <<"N">>, <<"T">>, <<"0">>, <<"1">>, <<Q, "a", Q>>,
          <<"[", "]">>, <<"a">>}

Texts ==
    {p \o c \o s : p \in SeqsUpTo(PrefixSymbols, MaxPad), c \in Cores,
                   s \in SeqsUpTo(SuffixSymbols, MaxPad)}

\* An argument is the empty string or not.
Args == {<<>>, <<"a">>}

Init ==
    /\ pc = "idle" /\ entry = "none" /\ code = <<>> /\ prompt = <<>>
    /\ apiKey = FALSE /\ invoked = FALSE /\ gen = "none" /\ text = <<>>
    /\ outcome = NoOutcome
    /\ uiCode = <<>> /\ uiPrompt = <<>> /\ response = Null /\ error = Null
    /\ isLoading = FALSE /\ finalCode = Str(<<>>) /\ handler = "none"
    /\ toast = "none"

Next ==
    \/ \E c \in Args, p \in Args, key \in BOOLEAN :
          IterateCodeCall(c, p, key) /\ UNCHANGED ui
    \/ IterateCodeReturns(Texts) /\ UNCHANGED ui
    \/ \E isError \in BOOLEAN : IterateCodeCatches(isError) /\ UNCHANGED ui
    \/ \E key \in BOOLEAN : PostCallMalformed(key) /\ UNCHANGED ui
    \/ \E c \in Args, p \in Args, key \in BOOLEAN :
          PostCall(c, p, key) /\ UNCHANGED ui
    \/ PostReturns(Texts) /\ UNCHANGED ui
    \/ PostCatches /\ UNCHANGED ui

Spec == Init /\ [][Next]_vars

---------------------------------------------------------------------------
(* The CodeIterator component *)

\* s.trim()
RECURSIVE TrimStart(_)
TrimStart(s) == IF s # <<>> /\ Head(s) = " " THEN TrimStart(Tail(s)) ELSE s
RECURSIVE TrimEnd(_)
TrimEnd(s) ==
    IF s # <<>> /\ s[Len(s)] = " " THEN TrimEnd(SubSeq(s, 1, Len(s) - 1)) ELSE s
Trim(s) == TrimEnd(TrimStart(s))

RetryHint ==
    <<"\n\nIMPORTANT: Please ensure your response is in valid JSON format with 'modifiedCode' and 'explanation' fields.">>

\* What the user can have typed: nothing, blanks, or something.
UiStrings == {<<>>, <<" ">>, <<"a">>}

\* The texts generateText answers the component's requests with.
UiTexts ==
    {ObjectText(<<Q, "a", Q>>, <<Q, "a", Q>>), ObjectText(<<Q, "a", Q>>, Absent),
     <<"N">>, <<"a">>}

\* onChange of the two text areas
setCode(c) ==
    /\ uiCode # c
    /\ uiCode' = c
    /\ UNCHANGED <<uiPrompt, response, error, isLoading, finalCode, handler, toast>>
    /\ UNCHANGED srv

setPrompt(p) ==
    /\ uiPrompt # p
    /\ uiPrompt' = p
    /\ UNCHANGED <<uiCode, response, error, isLoading, finalCode, handler, toast>>
    /\ UNCHANGED srv

\* The awaited call is over: nothing of it is left.
CallConsumed ==
    /\ pc' = "idle" /\ entry' = "none" /\ code' = <<>> /\ prompt' = <<>>
    /\ apiKey' = FALSE /\ invoked' = FALSE /\ gen' = "none" /\ text' = <<>>
    /\ outcome' = NoOutcome

\* handleSubmit up to its await (the button is disabled while loading).
handleSubmit(key) ==
    /\ handler = "none" /\ ~isLoading
    /\ IF Trim(uiCode) = <<>>
       THEN /\ toast' = "Missing code"
            /\ UNCHANGED <<uiCode, uiPrompt, response, error, isLoading,
                           finalCode, handler>>
            /\ UNCHANGED srv
       ELSE IF Trim(uiPrompt) = <<>>
       THEN /\ toast' = "Missing prompt"
            /\ UNCHANGED <<uiCode, uiPrompt, response, error, isLoading,
                           finalCode, handler>>
            /\ UNCHANGED srv
       ELSE /\ isLoading' = TRUE /\ error' = Null /\ handler' = "submit"
            /\ IterateCodeCall(uiCode, uiPrompt, key)
            /\ UNCHANGED <<uiCode, uiPrompt, response, finalCode, toast>>

\* handleSubmit from the end of its await to its end.
handleSubmitEnd ==
    /\ handler = "submit" /\ pc = "done"
    /\ IF outcome.kind = "return"
       THEN /\ response' = outcome.val /\ error' = Null
            /\ toast' = IF ~Truthy(outcome.val.mc) \/ ~Truthy(outcome.val.ex)
                        THEN "Incomplete response" ELSE toast
       ELSE /\ error' = Str(<<outcome.msg>>) /\ response' = Null
            /\ toast' = "Error"
    /\ isLoading' = FALSE /\ handler' = "none"
    /\ CallConsumed
    /\ UNCHANGED <<uiCode, uiPrompt, finalCode>>

\* handleRetry up to its await (its buttons are in the error card and the
\* response card, disabled while loading).
handleRetry(key) ==
    /\ handler = "none" /\ ~isLoading
    /\ Truthy(error) \/ response # Null
    /\ IF uiCode = <<>> \/ uiPrompt = <<>>
       THEN UNCHANGED vars
       ELSE /\ toast' = "Retrying"
            /\ isLoading' = TRUE /\ error' = Null /\ handler' = "retry"
            /\ IterateCodeCall(uiCode, uiPrompt \o RetryHint, key)
            /\ UNCHANGED <<uiCode, uiPrompt, response, finalCode>>

\* handleRetryEnd whose catch block leaves out setResponse(null).
handleRetryEnd_KeepsResponse ==
    /\ handler = "retry" /\ pc = "done"
    /\ IF outcome.kind = "return"
       THEN response' = outcome.val /\ error' = Null
       ELSE error' = Str(<<outcome.msg>>) /\ response' = response
    /\ isLoading' = FALSE /\ handler' = "none"
    /\ CallConsumed
    /\ UNCHANGED <<uiCode, uiPrompt, finalCode, toast>>

\* handleRetry from the end of its await to its end.
handleRetryEnd ==
    /\ handler = "retry" /\ pc = "done"
    /\ IF outcome.kind = "return"
       THEN response' = outcome.val /\ error' = Null
       ELSE error' = Str(<<outcome.msg>>) /\ response' = Null
    /\ isLoading' = FALSE /\ handler' = "none"
    /\ CallConsumed
    /\ UNCHANGED <<uiCode, uiPrompt, finalCode, toast>>

\* handleIntegrate
handleIntegrate ==
    /\ response # Null
    /\ finalCode' = response.mc
    /\ toast' = "Code integrated"
    /\ UNCHANGED <<uiCode, uiPrompt, response, error, isLoading, handler>>
    /\ UNCHANGED srv

NextUI ==
    \/ \E c \in UiStrings : setCode(c)
    \/ \E p \in UiStrings : setPrompt(p)
    \/ \E key \in BOOLEAN : handleSubmit(key)
    \/ handleSubmitEnd
    \/ \E key \in BOOLEAN : handleRetry(key)
    \/ handleRetryEnd
    \/ handleIntegrate
    \/ IterateCodeReturns(UiTexts) /\ UNCHANGED ui
    \/ \E isError \in BOOLEAN : IterateCodeCatches(isError) /\ UNCHANGED ui

SpecUI == Init /\ [][NextUI]_vars

---------------------------------------------------------------------------
(* Properties of the entry points *)

\* iterateCode ran to its end on a text generateText returned.
IterateCodeEnded == pc = "done" /\ entry = "iterateCode" /\ gen = "returned"

\* The same, for a request whose code and prompt are not empty.
ProperCallEnded == IterateCodeEnded /\ code # <<>> /\ prompt # <<>>

\* A property that is there (JSON.parse never yields undefined).
Present(v) == v # Undefined

\* A field that is neither missing nor empty.
NonEmpty(v) == v.k \notin {"undefined", "null"} /\ v # Str(<<>>)

NoParseableSubstring(t) ==
    \A i \in 1..Len(t) : \A j \in i..Len(t) : ~JsonParse(SubSeq(t, i, j)).ok

\* The places <<i, j>> where t holds a JSON object with both fields.
EmbeddedObjects(t) ==
    {ij \in (1..Len(t)) \X (1..Len(t)) :
        /\ ij[1] < ij[2] /\ t[ij[1]] = "{" /\ t[ij[2]] = "}"
        /\ LET o == JsonParse(SubSeq(t, ij[1], ij[2]))
           IN  o.ok /\ o.val.k = "obj" /\ Present(o.val.mc) /\ Present(o.val.ex)}

\* C1: whatever text generateText returns, iterateCode returns a result:
\* the shape of the model output never makes the request fail.
C1_NeverRaises == ProperCallEnded => outcome.kind = "return"

\* C2: every value iterateCode returns has modifiedCode and explanation
\* both present and non-empty.
C2_BothPopulated ==
    (pc = "done" /\ entry = "iterateCode" /\ outcome.kind = "return")
        => /\ outcome.val.k = "obj"
           /\ NonEmpty(outcome.val.mc)
           /\ NonEmpty(outcome.val.ex)

C2_Witness ==
    /\ ProperCallEnded /\ outcome.kind = "return"
    /\ text = <<>>
    /\ outcome.val.mc = Str(PlaceholderCode)

\* C3 as stated: a text that is a JSON object with both fields comes back
\* as exactly those two field values.
C3_Original ==
    ProperCallEnded =>
        LET d == JsonParse(text)
        IN  (d.ok /\ d.val.k = "obj" /\ Present(d.val.mc) /\ Present(d.val.ex))
                => outcome = Returned(Obj(d.val.mc, d.val.ex, FALSE))

\* C3: a text that is a JSON object whose modifiedCode and explanation are
\* both non-falsy comes back as exactly those two field values.
C3_NonFalsyFieldsUnchanged ==
    IterateCodeEnded =>
        LET d == JsonParse(text)
        IN  (d.ok /\ d.val.k = "obj" /\ Truthy(d.val.mc) /\ Truthy(d.val.ex))
                => outcome = Returned(Obj(d.val.mc, d.val.ex, FALSE))

C3_Witness ==
    /\ ProperCallEnded
    /\ JsonParse(text).ok /\ JsonParse(text).val.k = "obj"
    /\ JsonParse(text).val.more
    /\ outcome = Returned(Obj(Str(<<"a">>), Str(<<"}">>), FALSE))

\* C4 as stated: wherever the text holds a JSON object with both fields
\* (here even: both non-falsy), whatever surrounds it, that object's
\* fields come back.
C4_Original ==
    ProperCallEnded =>
        \A ij \in EmbeddedObjects(text) :
            LET o == JsonParse(SubSeq(text, ij[1], ij[2])).val
            IN  (Truthy(o.mc) /\ Truthy(o.ex))
                    => outcome = Returned(Obj(o.mc, o.ex, FALSE))

\* C4: an embedded JSON object with both fields non-falsy comes back as
\* its two fields when no "{" precedes it, no "}" follows it and the whole
\* text is not itself JSON for something that is not an object.
C4_ExtractsWhenSpanIsObject ==
    IterateCodeEnded =>
        \A ij \in EmbeddedObjects(text) :
            LET o == JsonParse(SubSeq(text, ij[1], ij[2])).val
                d == JsonParse(text)
            IN  ( /\ \A n \in 1..(ij[1] - 1) : text[n] # "{"
                  /\ \A n \in (ij[2] + 1)..Len(text) : text[n] # "}"
                  /\ ~(d.ok /\ d.val.k # "obj")
                  /\ Truthy(o.mc) /\ Truthy(o.ex) )
                => outcome = Returned(Obj(o.mc, o.ex, FALSE))

\* Prose (or a stray brace) on both sides of the object, the direct parse
\* having failed.
C4_Witness ==
    /\ ProperCallEnded
    /\ ~JsonParse(text).ok
    /\ \E ij \in EmbeddedObjects(text) :
          /\ ij[1] > 1 /\ ij[2] < Len(text)
          /\ text[1] = "}" /\ text[Len(text)] = "a"
          /\ LET o == JsonParse(SubSeq(text, ij[1], ij[2])).val
             IN  Truthy(o.mc) /\ Truthy(o.ex)
                 /\ outcome = Returned(Obj(o.mc, o.ex, FALSE))

\* C5 as stated: a text with no parseable JSON substring, the empty text
\* included, comes back as modifiedCode with the parse-failure diagnostic.
C5_Original ==
    (ProperCallEnded /\ NoParseableSubstring(text))
        => outcome = Returned(Obj(Str(text), Str(ParseFailureMsg), FALSE))

\* C5: a non-empty text with no parseable JSON substring comes back as
\* modifiedCode with the parse-failure diagnostic; the empty text comes
\* back as the placeholder comment with that diagnostic.
C5_RawPassthrough ==
    (IterateCodeEnded /\ NoParseableSubstring(text))
        => outcome = Returned(Obj(IF text = <<>> THEN Str(PlaceholderCode)
                                                 ELSE Str(text),
                                  Str(ParseFailureMsg), FALSE))

C5_Witness ==
    /\ ProperCallEnded /\ NoParseableSubstring(text)
    /\ Len(text) >= 2 /\ text[1] = "{"
    /\ outcome = Returned(Obj(Str(text), Str(ParseFailureMsg), FALSE))

\* C6: with an empty code or an empty prompt generateText is never called,
\* through iterateCode as through POST.
C6_EmptyInputRejected ==
    (entry # "none" /\ (code = <<>> \/ prompt = <<>>)) => ~invoked

\* C7 as stated: with no credential generateText is never called and the
\* failure carries the configuration message, which is not a generic one.
C7_Original ==
    (entry # "none" /\ ~apiKey) =>
        /\ ~invoked
        /\ pc = "done"
        /\ entry = "iterateCode" => outcome = Thrown(ConfigMsg)
        /\ entry = "POST" => outcome = ErrorBody(ConfigMsg, 500)
        /\ ConfigMsg \notin {GenericMsg, PostGenericMsg}

\* C7: with no credential generateText is never called; iterateCode
\* throws the configuration message, and POST answers 500 with it when
\* the body gave a non-empty code and a non-empty prompt.
C7_ConfigErrorFirst ==
    (entry # "none" /\ ~apiKey) =>
        /\ ~invoked
        /\ pc = "done"
        /\ entry = "iterateCode" => outcome = Thrown(ConfigMsg)
        /\ (entry = "POST" /\ code # <<>> /\ prompt # <<>>)
              => outcome = ErrorBody(ConfigMsg, 500)
        /\ ConfigMsg \notin {GenericMsg, PostGenericMsg}

C7_Witness ==
    /\ pc = "done" /\ entry = "POST" /\ ~apiKey
    /\ code # <<>> /\ prompt # <<>>
    /\ outcome = ErrorBody(ConfigMsg, 500)

\* C8: on the same text POST's success payload is the value iterateCode
\* returns, so it too has both fields populated.
C8_PostSameAsIterateCode ==
    (pc = "done" /\ entry = "POST" /\ gen = "returned") =>
        LET r == IterateCodeResult(text)
        IN  /\ r.kind = "return"
            /\ outcome = Payload(r.val)

\* C9 as stated, for a text that is not empty: when either field of the
\* parsed value is falsy, the returned modifiedCode is the raw text and the
\* returned explanation is the incomplete-response message.
C9_Original ==
    (ProperCallEnded /\ outcome.kind = "return" /\ text # <<>>) =>
        LET parsed == safeJsonParse(text)
        IN  (~Truthy(GetModifiedCode(parsed)) \/ ~Truthy(GetExplanation(parsed)))
            => /\ outcome.val.mc = (IF text = <<>> THEN Str(PlaceholderCode)
                                                   ELSE Str(text))
               /\ outcome.val.ex = Str(IncompleteMsg)

\* C9: when either field of the parsed value is falsy, each returned field
\* is the parsed one where that is non-falsy; otherwise modifiedCode is the
\* raw text (the placeholder for an empty text) and explanation is the
\* incomplete-response message.
C9_PerFieldSubstitution ==
    (IterateCodeEnded /\ outcome.kind = "return") =>
        LET parsed == safeJsonParse(text)
            m == GetModifiedCode(parsed)
            e == GetExplanation(parsed)
        IN  (~Truthy(m) \/ ~Truthy(e))
            => /\ outcome.val.mc = (IF Truthy(m) THEN m
                                    ELSE IF text = <<>> THEN Str(PlaceholderCode)
                                    ELSE Str(text))
               /\ outcome.val.ex = (IF Truthy(e) THEN e ELSE Str(IncompleteMsg))

\* modifiedCode was there and kept, explanation was missing.
C9_Witness ==
    /\ ProperCallEnded /\ outcome.kind = "return"
    /\ Truthy(GetModifiedCode(safeJsonParse(text)))
    /\ ~Truthy(GetExplanation(safeJsonParse(text)))
    /\ outcome.val.mc = GetModifiedCode(safeJsonParse(text))
    /\ outcome.val.mc # Str(text)
    /\ outcome.val.ex = Str(IncompleteMsg)

\* C10: every handleSubmit or handleRetry call that started a request
\* ends with isLoading false and exactly one of response and error set:
\* the result with error null when iterateCode returned, the message with
\* response null when it threw.
C10_RequestEndsSettled ==
    [][(handler # "none" /\ handler' = "none") =>
          /\ isLoading /\ ~isLoading'
          /\ (response' # Null) # (error' # Null)
          /\ outcome.kind = "return" =>
                (response' = outcome.val /\ response' # Null /\ error' = Null)
          /\ outcome.kind = "throw" =>
                (error' = Str(<<outcome.msg>>) /\ response' = Null)]_vars

\* A request failed after an earlier one had succeeded and been integrated.
C10_Witness ==
    /\ handler = "none" /\ ~isLoading
    /\ error # Null /\ response = Null
    /\ finalCode # Str(<<>>)
    /\ toast = "Retrying"

===========================================================================
